---- MODULE Spec2Model ----
(***************************************************************************)
(* A model of tmc_http_server: the route table and its registration        *)
(* checks (TMCServer.add_url_handle), the background thread's life cycle   *)
(* (Thread.start, TMCServer.run, TMCServer.stop) and the per-request       *)
(* dispatch of TMCRequestHandler (do_GET, do_POST).                        *)
(*                                                                         *)
(* Threads.  The caller's thread registers routes, starts and stops the    *)
(* server.  The background thread executes run().  TMCHTTPServer derives   *)
(* from ThreadingHTTPServer, so handle_request() hands every accepted      *)
(* request to a thread of its own and returns; the request threads run     *)
(* do_GET / do_POST while the loop of run() goes on.                       *)
(*                                                                         *)
(* Strings are sequences of one-character tokens (a path) or single tokens *)
(* (a verb), so that splitting, upper-casing and key formatting are        *)
(* computed and not assumed.                                               *)
(*                                                                         *)
(* Spec and FairSpec are the server.  CoerceSpec applies try_parse and     *)
(* unpack to the values a caller can hold; PostSpec runs the try block of  *)
(* do_POST on the headers and bodies a client can send; RegisterSpec is    *)
(* the caller registering with the verbs in one string.                    *)
(***************************************************************************)
EXTENDS Integers, Sequences, FiniteSets, Bags, TLC

\* ------------------------------------------------------------------ bounds

\* Requests that may be in flight (accepted, not yet answered) at once.
MaxInflight == 2

\* Longest verb list passed to one add_url_handle call.
MaxVerbs == 2

\* ------------------------------------------------------------------ inputs

\* Routes the caller registers.
Routes == {<<"a">>}

\* Request targets a client sends: a registered path, the same path with a
\* query string, and a path nobody registers.
RequestPaths == {<<"a">>, <<"a", "?", "x">>, <<"b">>}

\* Handler functions the caller binds.
Handlers == {"h1", "h2"}

\* Verb spellings the caller passes: an implemented verb in upper case, an
\* implemented verb in lower case, and a verb that is not implemented.
VerbTokens == {"GET", "post", "PUT"}

\* The verb lists of one to MaxVerbs verbs.
MethodLists == UNION {[1..n -> VerbTokens] : n \in 1..MaxVerbs}

\* The request methods the model sends (the ones with a do_ method).
Commands == {"GET", "POST"}

\* --------------------------------------------------------- pure functions

HTTP_METHODS == {"GET", "POST"}

\* str.upper on the verb tokens.
upper(method) ==
    CASE method = "get" -> "GET"
      [] method = "post" -> "POST"
      [] method = "put" -> "PUT"
      [] OTHER -> method

\* "{}, {}".format(route, method.upper())
format_route_key(route, method) == route \o <<",", " ", upper(method)>>

\* self.path.split("?")[0]: the part of the target before the first "?".
split_query(path) ==
    LET qs == {i \in 1..Len(path) : path[i] = "?"}
        first == IF qs = {} THEN Len(path) + 1
                 ELSE CHOOSE i \in qs : \A j \in qs : i <= j
    IN SubSeq(path, 1, first - 1)

\* The for loop of add_url_handle over the verb list: the table it leaves
\* and the exception it raises ("none" when it runs to the end).
RECURSIVE register_verbs(_, _, _, _)
register_verbs(rules, route, handler, mthds) ==
    IF mthds = <<>> THEN [rules |-> rules, raised |-> "none"]
    ELSE LET method == Head(mthds)
             key == format_route_key(route, method)
         IN IF upper(method) \notin HTTP_METHODS
            THEN [rules |-> rules, raised |-> "UnimplementedHTTPMethodError"]
            ELSE IF key \in DOMAIN rules
            THEN [rules |-> rules, raised |-> "AssertionError: already registered"]
            ELSE register_verbs(rules @@ (key :> handler), route, handler,
                                Tail(mthds))

\* handle_unknown_route matching the route alone, whatever the verb.
handle_unknown_route_any_verb(rules, key) ==
    \E k \in DOMAIN rules :
        SubSeq(k, 1, Len(k) - 1) = SubSeq(key, 1, Len(key) - 1)

\* Whether handle_unknown_route finds the key (and so writes no 404).
handle_unknown_route(rules, key) == key \in DOMAIN rules

\* The route key do_GET looks up: the query string is split off first.
get_key(path) == format_route_key(split_query(path), "GET")

\* The route key do_POST looks up: the request target as it came.
post_key(path) == format_route_key(path, "POST")

\* ------------------------------------------------------------------ state

VARIABLES
    route_rules,      \* TMCServer.__route_rules: route key -> handler
    serving,          \* TMCServer.__serving
    started,          \* Thread.start() has been called (and has returned)
    tpc,              \* where the background thread is in run()
    inflight,         \* bag of the requests whose threads are running
    stopCalled,       \* history: "never", "before_start", "after_start"
    startedEmpty,     \* history: the table was empty when start() was called
    noRoutesReports,  \* history: on_error calls made for the no-routes case
    last              \* history: the operation that has just acted

vars == <<route_rules, serving, started, tpc, inflight, stopCalled,
          startedEmpty, noRoutesReports, last>>

\* A request as handle_request() hands it to its thread.
NewRequest(command, path) ==
    [stage |-> "pending", command |-> command, path |-> path]

\* A request whose handler has been called and has not returned yet.
InHandler == [stage |-> "handler"]

\* A request whose thread has ended.  log lists what it did, in order:
\* "handler" (the bound handler was called), "on_error" (the callback was
\* called) and the status lines sent; err is the failure the except clause
\* caught ("none" without one).
Answered(err, log) == [stage |-> "done", err |-> err, log |-> log]

Init ==
    /\ route_rules = <<>>
    /\ serving = FALSE
    /\ started = FALSE
    /\ tpc = "unstarted"
    /\ inflight = EmptyBag
    /\ stopCalled = "never"
    /\ startedEmpty = FALSE
    /\ noRoutesReports = 0
    /\ last = [op |-> "init"]

\* ---------------------------------------------------- the caller's thread

\* TMCServer.add_url_handle (and the route decorator, which calls it).
add_url_handle(route, handler, methods) ==
    LET out == IF serving
               THEN [rules |-> route_rules,
                     raised |-> "AssertionError: server is running"]
               ELSE register_verbs(route_rules, route, handler, methods)
    IN /\ route_rules' = out.rules
       /\ last' = [op |-> "add_url_handle", raised |-> out.raised]
       /\ UNCHANGED <<serving, started, tpc, inflight, stopCalled,
                      startedEmpty, noRoutesReports>>

\* Thread.start(): returns once the new thread has been scheduled; run() has
\* not necessarily executed a single statement by then.
start ==
    /\ ~started
    /\ started' = TRUE
    /\ tpc' = "check_routes"
    /\ startedEmpty' = (DOMAIN route_rules = {})
    /\ last' = [op |-> "start"]
    /\ UNCHANGED <<route_rules, serving, inflight, stopCalled,
                   noRoutesReports>>

\* stop() shutting the request threads down with the flag.
stop_drops_requests ==
    /\ serving' = FALSE
    /\ inflight' = EmptyBag
    /\ stopCalled' = IF started THEN "after_start"
                     ELSE IF stopCalled = "never" THEN "before_start"
                     ELSE stopCalled
    /\ last' = [op |-> "stop"]
    /\ UNCHANGED <<route_rules, started, tpc, startedEmpty, noRoutesReports>>

\* TMCServer.stop()
stop ==
    /\ serving' = FALSE
    /\ stopCalled' = IF started THEN "after_start"
                     ELSE IF stopCalled = "never" THEN "before_start"
                     ELSE stopCalled
    /\ last' = [op |-> "stop"]
    /\ UNCHANGED <<route_rules, started, tpc, inflight, startedEmpty,
                   noRoutesReports>>

\* ------------------------------------------------- the background thread

\* run(), first statement: report an empty table through on_error.  The
\* callback is the caller's: it returns or it raises, and nothing in run()
\* catches what it raises.
run_check_routes ==
    /\ tpc = "check_routes"
    /\ IF DOMAIN route_rules = {}
       THEN /\ noRoutesReports' = noRoutesReports + 1
            /\ \E raises \in BOOLEAN :
                 /\ tpc' = IF raises THEN "crashed" ELSE "set_serving"
                 /\ last' = [op |-> "run_no_routes", callback_raised |-> raises]
       ELSE /\ noRoutesReports' = noRoutesReports
            /\ tpc' = "set_serving"
            /\ last' = [op |-> "run_check_routes"]
    /\ UNCHANGED <<route_rules, serving, started, inflight, stopCalled,
                   startedEmpty>>

\* run(): self.__serving = True, then the listener is built on the table.
run_set_serving ==
    /\ tpc = "set_serving"
    /\ serving' = TRUE
    /\ tpc' = "loop"
    /\ last' = [op |-> "run_set_serving"]
    /\ UNCHANGED <<route_rules, started, inflight, stopCalled, startedEmpty,
                   noRoutesReports>>

\* run(): while self.__serving
run_loop ==
    /\ tpc = "loop"
    /\ tpc' = IF serving THEN "listen" ELSE "exited"
    /\ last' = [op |-> "run_loop"]
    /\ UNCHANGED <<route_rules, serving, started, inflight, stopCalled,
                   startedEmpty, noRoutesReports>>

\* handle_request accepting a request without returning to the flag test of
\* the loop (the listener goes on accepting, as serve_forever would).
handle_request_keeps_listening(command, path) ==
    /\ tpc = "listen"
    /\ BagCardinality(inflight) < MaxInflight
    /\ inflight' = inflight (+) SetToBag({NewRequest(command, path)})
    /\ tpc' = "listen"
    /\ last' = [op |-> "handle_request"]
    /\ UNCHANGED <<route_rules, serving, started, stopCalled, startedEmpty,
                   noRoutesReports>>

\* server.handle_request(): blocks until a request arrives, starts the
\* thread that will answer it, and returns to the loop.
handle_request(command, path) ==
    /\ tpc = "listen"
    /\ BagCardinality(inflight) < MaxInflight
    /\ inflight' = inflight (+) SetToBag({NewRequest(command, path)})
    /\ tpc' = "loop"
    /\ last' = [op |-> "handle_request"]
    /\ UNCHANGED <<route_rules, serving, started, stopCalled, startedEmpty,
                   noRoutesReports>>

\* server.handle_request() raises: the loop's except clause hands the error
\* to on_error, whose own exception nothing catches.
handle_request_error ==
    /\ tpc = "listen"
    /\ \E raises \in BOOLEAN :
         /\ tpc' = IF raises THEN "crashed" ELSE "loop"
         /\ last' = [op |-> "listener_error", callback_raised |-> raises]
    /\ UNCHANGED <<route_rules, serving, started, inflight, stopCalled,
                   startedEmpty, noRoutesReports>>

\* ---------------------------------------------------- the request threads

\* handle_internal_error(): the status line of the fixed 500 response.
handle_internal_error(log) == log \o <<"500">>

\* The except clause of do_GET / do_POST for the failure err of a request
\* that has done log: self.server.on_error(err), then
\* handle_internal_error().  The callback is the caller's: when it raises,
\* the exception leaves do_GET / do_POST and the thread ends with no
\* response written.
except_clause(err, log, raises) ==
    IF raises THEN Answered(err, log \o <<"on_error">>)
    ELSE Answered(err, handle_internal_error(log \o <<"on_error">>))

\* do_GET / do_POST for the route key of request r: a 404 for an unknown
\* key; otherwise the arguments are built (which may raise) and the handler
\* bound to the key is called.
dispatch(r, key, op) ==
    LET ev(handler, res) ==
            [op |-> op, key |-> key, handler |-> handler, res |-> res]
    IN IF ~handle_unknown_route(route_rules, key)
       THEN /\ inflight' = inflight (-) SetToBag({r})
            /\ last' = ev("none", Answered("none", <<"404">>))
       ELSE \E built \in BOOLEAN :
              IF built /\ key \in DOMAIN route_rules
              THEN /\ inflight' = (inflight (-) SetToBag({r}))
                                     (+) SetToBag({InHandler})
                   /\ last' = ev(route_rules[key], InHandler)
              ELSE \E raises \in BOOLEAN :
                     /\ inflight' = inflight (-) SetToBag({r})
                     /\ last' = ev("none",
                                   except_clause(IF built THEN "KeyError"
                                                 ELSE "args", <<>>, raises))

do_GET(path) ==
    LET r == NewRequest("GET", path)
    IN /\ BagIn(r, inflight)
       /\ dispatch(r, get_key(path), "do_GET")
       /\ UNCHANGED <<route_rules, serving, started, tpc, stopCalled,
                      startedEmpty, noRoutesReports>>

do_POST(path) ==
    LET r == NewRequest("POST", path)
    IN /\ BagIn(r, inflight)
       /\ dispatch(r, post_key(path), "do_POST")
       /\ UNCHANGED <<route_rules, serving, started, tpc, stopCalled,
                      startedEmpty, noRoutesReports>>

\* The rest of the try block once the handler is running: the handler
\* returns or raises ("handler"), the mime type is guessed (which may raise,
\* "mime"), the 200 status line and the headers go out, the body is encoded
\* and written (which may raise, "encode", with the status line sent).
handler_return ==
    /\ BagIn(InHandler, inflight)
    /\ inflight' = inflight (-) SetToBag({InHandler})
    /\ \E outcome \in {"ok", "handler", "mime", "encode"} :
         IF outcome = "ok"
         THEN last' = [op |-> "handler_return",
                       res |-> Answered("none", <<"handler", "200">>)]
         ELSE \E raises \in BOOLEAN :
                last' = [op |-> "handler_return",
                         res |-> except_clause(outcome,
                                     IF outcome = "encode"
                                     THEN <<"handler", "200">>
                                     ELSE <<"handler">>, raises)]
    /\ UNCHANGED <<route_rules, serving, started, tpc, stopCalled,
                   startedEmpty, noRoutesReports>>

\* ---------------------------------------------------------- specification

\* The steps of the threads that answer the requests in flight.
Requests ==
    \/ \E path \in RequestPaths : do_GET(path)
    \/ \E path \in RequestPaths : do_POST(path)
    \/ handler_return

\* A request arrives at the listener.
Arrival ==
    \E command \in Commands, path \in RequestPaths :
        handle_request(command, path)

Next ==
    \/ \E route \in Routes, handler \in Handlers, methods \in MethodLists :
         add_url_handle(route, handler, methods)
    \/ start
    \/ stop
    \/ run_check_routes
    \/ run_set_serving
    \/ run_loop
    \/ Arrival
    \/ handle_request_error
    \/ \E path \in RequestPaths : do_GET(path)
    \/ \E path \in RequestPaths : do_POST(path)
    \/ handler_return

Spec == Init /\ [][Next]_vars

\* The scheduler runs every thread that can take a step, and (the most one
\* can assume of the clients) requests keep arriving while the listener
\* waits for one.
FairSpec ==
    /\ Spec
    /\ WF_vars(run_check_routes)
    /\ WF_vars(run_set_serving)
    /\ WF_vars(run_loop)
    /\ WF_vars(Arrival)
    /\ WF_vars(Requests)

\* --------------------------------------------------------- value coercion

\* Python values, tagged with their type.  A string is the sequence of its
\* lexemes (written with blanks between them); a mapping is a function from
\* its keys; "raise" is the exception a call ends with instead of a value.
PyStr(s) == [t |-> "str", v |-> s]
PyBool(b) == [t |-> "bool", v |-> b]
PyNone == [t |-> "null", v |-> "None"]
PyInt(n) == [t |-> "int", v |-> n]
PyFloat(x) == [t |-> "float", v |-> x]
PyList(items) == [t |-> "list", v |-> items]
PyDict(members) == [t |-> "dict", v |-> members]
Raise(err) == [t |-> "raise", v |-> err]

\* Longest string, in lexemes, and longest list handed to the coercion.
MaxLexemes == 2
MaxList == 2

\* The lexemes strings are made of: JSON literals, their Python spellings,
\* a bare word, a quoted word and JSON punctuation.
Lexemes == {"true", "True", "false", "False", "null", "None", "3", "-0.5",
            "\"bar\"", "foo", "[", "]", "{", "}", ",", ":"}

\* json.loads on a one-lexeme JSON scalar.
JSONScalar(tok) ==
    CASE tok = "true" -> PyBool(TRUE)
      [] tok = "false" -> PyBool(FALSE)
      [] tok = "null" -> PyNone
      [] tok = "3" -> PyInt(3)
      [] tok = "7" -> PyInt(7)
      [] tok = "-0.5" -> PyFloat("-0.5")
      [] tok = "\"bar\"" -> PyStr(<<"bar">>)
      [] tok = "\"baz\"" -> PyStr(<<"baz">>)

JSONScalars == {"true", "false", "null", "3", "7", "-0.5", "\"bar\"", "\"baz\""}

\* The name a quoted lexeme gives a member of a JSON object.
MemberName(tok) == IF tok = "\"bar\"" THEN "bar" ELSE "baz"

JSONStrings == {"\"bar\"", "\"baz\""}

\* json.loads: the value of the JSON text s, or a JSONDecodeError.  The
\* parser reads one value at position i and gives it with the position after
\* it; the text must end there.
Parsed(val, next) == [ok |-> TRUE, val |-> val, next |-> next]
JSONDecodeError == [ok |-> FALSE]

RECURSIVE parse_value(_, _)
RECURSIVE parse_elements(_, _, _)
RECURSIVE parse_members(_, _, _)

parse_elements(s, i, acc) ==
    LET e == parse_value(s, i)
    IN IF ~e.ok \/ e.next > Len(s) THEN JSONDecodeError
       ELSE IF s[e.next] = "," THEN parse_elements(s, e.next + 1, Append(acc, e.val))
       ELSE IF s[e.next] = "]" THEN Parsed(PyList(Append(acc, e.val)), e.next + 1)
       ELSE JSONDecodeError

parse_members(s, i, acc) ==
    IF i + 1 > Len(s) \/ s[i] \notin JSONStrings \/ s[i + 1] # ":"
    THEN JSONDecodeError
    ELSE LET e == parse_value(s, i + 2)
             members == (MemberName(s[i]) :> e.val) @@ acc
         IN IF ~e.ok \/ e.next > Len(s) THEN JSONDecodeError
            ELSE IF s[e.next] = "," THEN parse_members(s, e.next + 1, members)
            ELSE IF s[e.next] = "}" THEN Parsed(PyDict(members), e.next + 1)
            ELSE JSONDecodeError

parse_value(s, i) ==
    IF i > Len(s) THEN JSONDecodeError
    ELSE IF s[i] \in JSONScalars THEN Parsed(JSONScalar(s[i]), i + 1)
    ELSE IF s[i] = "["
    THEN IF i + 1 <= Len(s) /\ s[i + 1] = "]"
         THEN Parsed(PyList(<<>>), i + 2)
         ELSE parse_elements(s, i + 1, <<>>)
    ELSE IF s[i] = "{"
    THEN IF i + 1 <= Len(s) /\ s[i + 1] = "}"
         THEN Parsed(PyDict(<<>>), i + 2)
         ELSE parse_members(s, i + 1, <<>>)
    ELSE JSONDecodeError

json_loads(s) ==
    LET e == parse_value(s, 1)
    IN IF e.ok /\ e.next = Len(s) + 1 THEN e ELSE JSONDecodeError

\* try_parse.  A string goes through json.loads, then the three Python
\* spellings.  Anything else is asked for its items(): a mapping is rebuilt,
\* unless the rebuilding raises TypeError, which the last except clause
\* answers with the value as it came; without items() the value is iterated
\* inside the except AttributeError clause, where a TypeError (the value is
\* not iterable, or an element's try_parse raised) is caught by nothing.
RECURSIVE try_parse(_)
try_parse(value) ==
    IF value.t = "str"
    THEN LET r == json_loads(value.v)
         IN IF r.ok THEN r.val
            ELSE IF value.v = <<"True">> THEN PyBool(TRUE)
            ELSE IF value.v = <<"False">> THEN PyBool(FALSE)
            ELSE IF value.v = <<"None">> THEN PyNone
            ELSE value
    ELSE IF value.t = "dict"
    THEN LET parsed == [k \in DOMAIN value.v |-> try_parse(value.v[k])]
         IN IF \E k \in DOMAIN parsed : parsed[k].t = "raise"
            THEN value
            ELSE PyDict(parsed)
    ELSE IF value.t = "list"
    THEN LET parsed == [i \in 1..Len(value.v) |-> try_parse(value.v[i])]
         IN IF \E i \in 1..Len(parsed) : parsed[i].t = "raise"
            THEN Raise("TypeError")
            ELSE PyList(parsed)
    ELSE Raise("TypeError")

\* The exception the first raising item of a sequence of results raised.
FirstRaised(results) ==
    LET i == CHOOSE j \in 1..Len(results) :
                 /\ results[j].t = "raise"
                 /\ \A k \in 1..(j - 1) : results[k].t # "raise"
    IN results[i]

\* unpack keeping a one-element list a list.
RECURSIVE unpack_keeps_singletons(_)
unpack_keeps_singletons(value) ==
    IF value.t = "list" /\ Len(value.v) >= 1
    THEN PyList([i \in 1..Len(value.v) |-> unpack_keeps_singletons(value.v[i])])
    ELSE IF value.t = "dict" /\ DOMAIN value.v # {}
    THEN PyDict([k \in DOMAIN value.v |-> unpack_keeps_singletons(value.v[k])])
    ELSE try_parse(value)

\* unpack.  value[0] raises IndexError on an empty list (caught by nothing),
\* KeyError on a mapping (its keys are names) and TypeError on a scalar; a
\* TypeError in the try block, an item's included, is passed over and the
\* value goes to try_parse whole.
RECURSIVE unpack(_)
unpack(value) ==
    IF value.t = "str" THEN try_parse(value)
    ELSE IF value.t = "list"
    THEN IF Len(value.v) = 0 THEN Raise("IndexError")
         ELSE IF Len(value.v) = 1
         THEN IF try_parse(value.v[1]).t = "raise"
              THEN try_parse(value)
              ELSE try_parse(value.v[1])
         ELSE LET items == [i \in 1..Len(value.v) |-> unpack(value.v[i])]
              IN IF \A i \in 1..Len(items) : items[i].t # "raise"
                 THEN PyList(items)
                 ELSE IF FirstRaised(items).v = "TypeError"
                 THEN try_parse(value)
                 ELSE FirstRaised(items)
    ELSE IF value.t = "dict"
    THEN IF DOMAIN value.v # {}
         THEN LET members == [k \in DOMAIN value.v |-> unpack(value.v[k])]
              IN IF \E k \in DOMAIN members : members[k].t = "raise"
                 THEN CHOOSE r \in {members[k] : k \in DOMAIN members} :
                          r.t = "raise"
                 ELSE PyDict(members)
         ELSE try_parse(value)
    ELSE try_parse(value)

\* The strings handed to the coercion: every string of one to MaxLexemes
\* lexemes, a list of one number, a list cut short, and the object and the
\* list of the test suite.
Strings ==
    UNION {[1..n -> Lexemes] : n \in 1..MaxLexemes}
      \cup {<<"[", "3", "]">>,
            <<"[", "3", ",", "]">>,
            <<"{", "\"bar\"", ":", "7", ",", "\"baz\"", ":", "true", "}">>,
            <<"[", "\"bar\"", ",", "3", ",", "true", ",", "null", "]">>}

\* The parameter values of query strings and forms, and values that are not
\* strings.
Words == {<<"bar">>, <<"True">>, <<"false">>, <<"null">>, <<"3">>}
Scalars == {PyInt(3), PyBool(TRUE), PyNone}
Elements == {PyStr(w) : w \in Words} \cup Scalars
Lists == {PyList(items) : items \in UNION {[1..n -> Elements] : n \in 0..MaxList}}

\* parse_qs output: parameter names to non-empty lists of strings.
StringLists ==
    {PyList(items) :
        items \in UNION {[1..n -> {PyStr(w) : w \in Words}] : n \in 1..MaxList}}
Forms ==
    {PyDict(m) : m \in [{"foo"} -> StringLists] \cup [{"foo", "qux"} -> StringLists]}

Dicts ==
    Forms \cup {PyDict(<<>>)}
          \cup {PyDict(m) : m \in [{"foo", "qux"} -> Elements]}

CoerceInputs == {PyStr(s) : s \in Strings} \cup Scalars \cup Lists \cup Dicts

\* A caller holds a value ...
CoerceInit ==
    /\ Init!1 /\ Init!2 /\ Init!3 /\ Init!4 /\ Init!5 /\ Init!6 /\ Init!7
    /\ Init!8
    /\ last \in {[op |-> "input", value |-> value] : value \in CoerceInputs}

\* ... and calls try_parse on it,
call_try_parse ==
    /\ last.op = "input"
    /\ last' = [op |-> "try_parse", value |-> last.value,
                result |-> try_parse(last.value)]
    /\ UNCHANGED <<route_rules, serving, started, tpc, inflight, stopCalled,
                   startedEmpty, noRoutesReports>>

\* or unpack.
call_unpack ==
    /\ last.op = "input"
    /\ last' = [op |-> "unpack", value |-> last.value,
                result |-> unpack(last.value)]
    /\ UNCHANGED <<route_rules, serving, started, tpc, inflight, stopCalled,
                   startedEmpty, noRoutesReports>>

CoerceNext == call_try_parse \/ call_unpack

CoerceSpec == CoerceInit /\ [][CoerceNext]_vars

\* -------------------------------------------------- the body of a POST

\* urllib.parse.parse_qs on a form body: the pairs between "&" that read
\* name = value, each name with the list of its values in order; a pair of
\* another shape is dropped.
RECURSIVE parse_pairs(_, _)
parse_pairs(s, acc) ==
    LET amps == {i \in 1..Len(s) : s[i] = "&"}
        amp == IF amps = {} THEN Len(s) + 1
               ELSE CHOOSE i \in amps : \A j \in amps : i <= j
        pair == SubSeq(s, 1, amp - 1)
        rest == SubSeq(s, amp + 1, Len(s))
        name == pair[1]
        seen == IF name \in DOMAIN acc THEN acc[name].v ELSE <<>>
        next == IF Len(pair) = 3 /\ pair[2] = "="
                THEN (name :> PyList(Append(seen, PyStr(<<pair[3]>>)))) @@ acc
                ELSE acc
    IN IF s = <<>> THEN acc
       ELSE IF amp > Len(s) THEN next
       ELSE parse_pairs(rest, next)

parse_qs(s) == PyDict(parse_pairs(s, <<>>))

\* self.rfile.read(int(content_length)).decode("utf-8"): nothing is read
\* under the default 0 of an absent header, the body under its length, and
\* int() raises ValueError on a header that is not a number.
rfile_read(content_length, body) ==
    IF content_length = PyInt(0) THEN PyStr(<<>>)
    ELSE IF content_length = PyStr(<<"length">>) THEN PyStr(body)
    ELSE Raise("ValueError")

\* Python truth of a parsed JSON value ("json.loads(body) or {}").
Falsy(value) ==
    value \in {PyNone, PyBool(FALSE), PyInt(0), PyStr(<<>>), PyList(<<>>),
               PyDict(<<>>)}

\* The if / elif chain of do_POST: the arguments the handler is called with
\* (a mapping for handler(**kwargs), a list for positional arguments), or
\* the exception raised before the call.  In the last two branches body is
\* a local no branch has bound yet.
post_call(content_type, content_length, body) ==
    IF content_type.t # "str" THEN Raise("TypeError")
    ELSE IF \E i \in 1..Len(content_type.v) :
                content_type.v[i] = "application/json"
    THEN LET text == rfile_read(content_length, body)
             r == json_loads(text.v)
             kwargs == IF Falsy(r.val) THEN PyDict(<<>>) ELSE r.val
         IN IF text.t = "raise" THEN text
            ELSE IF ~r.ok THEN Raise("JSONDecodeError")
            ELSE IF kwargs.t = "dict" THEN kwargs
            ELSE Raise("TypeError")
    ELSE IF content_type.v = <<"application/x-www-form-urlencoded">>
    THEN LET text == rfile_read(content_length, body)
             query_params == unpack(parse_qs(text.v))
         IN IF text.t = "raise" THEN text
            ELSE query_params
    ELSE Raise("UnboundLocalError")

\* The Content-Type headers of the requests: none, JSON and form data with
\* and without a parameter, plain text.
ContentTypes ==
    {PyNone,
     PyStr(<<"application/json">>),
     PyStr(<<"application/json", ";", "charset=utf-8">>),
     PyStr(<<"application/x-www-form-urlencoded">>),
     PyStr(<<"application/x-www-form-urlencoded", ";", "charset=utf-8">>),
     PyStr(<<"text/plain">>)}

\* headers.get("Content-Length", 0): the default, the length of the body,
\* or something that is not a number.
ContentLengths == {PyInt(0), PyStr(<<"length">>), PyStr(<<"foo">>)}

\* The bodies: none, JSON texts, raw text and forms.
Bodies ==
    {<<>>,
     <<"{", "}">>,
     <<"{", "\"bar\"", ":", "7", "}">>,
     <<"{", "\"bar\"", ":", "7", ",", "\"baz\"", ":", "true", "}">>,
     <<"null">>,
     <<"[", "3", "]">>,
     <<"3">>,
     <<"foo">>,
     <<"bar", "=", "3">>,
     <<"bar", "=", "3", "&", "baz", "=", "true">>,
     <<"bar", "=", "3", "&", "bar", "=", "7">>}

\* The handler has been called with args.
HandlerCall(args) == [stage |-> "handler", args |-> args]

\* A POST for a registered route has reached the try block of do_POST ...
PostInit ==
    /\ route_rules = (format_route_key(<<"a">>, "POST") :> "h1")
    /\ serving = TRUE
    /\ started = TRUE
    /\ tpc = "loop"
    /\ inflight = SetToBag({NewRequest("POST", <<"a">>)})
    /\ stopCalled = "never"
    /\ startedEmpty = FALSE
    /\ noRoutesReports = 0
    /\ last \in {[op |-> "POST", content_type |-> content_type,
                  content_length |-> content_length, body |-> body] :
                     content_type \in ContentTypes,
                     content_length \in ContentLengths,
                     body \in Bodies}

\* ... which calls the handler, or ends in the except clause.
do_POST_body ==
    /\ last.op = "POST"
    /\ LET call == post_call(last.content_type, last.content_length,
                             last.body)
       IN \E raises \in BOOLEAN :
            last' = [op |-> "do_POST_body",
                     content_type |-> last.content_type,
                     content_length |-> last.content_length,
                     body |-> last.body,
                     res |-> IF call.t = "raise"
                             THEN except_clause(call.v, <<>>, raises)
                             ELSE HandlerCall(call)]
    /\ inflight' = IF post_call(last.content_type, last.content_length,
                                last.body).t = "raise"
                   THEN EmptyBag
                   ELSE SetToBag({InHandler})
    /\ UNCHANGED <<route_rules, serving, started, tpc, stopCalled,
                   startedEmpty, noRoutesReports>>

PostNext == do_POST_body

PostSpec == PostInit /\ [][PostNext]_vars

\* ------------------------------------------------ verbs given as a string

\* What the caller may put between two verbs of a string: the comma, with
\* blanks after it or not, and the separators the pattern does not match.
Separators ==
    {<<",">>, <<",", " ">>, <<" ">>}

\* The string, as lexemes, of the verbs with seps between them.
RECURSIVE verb_string(_, _)
verb_string(verbs, seps) ==
    IF Len(verbs) = 1 THEN <<verbs[1]>>
    ELSE <<verbs[1]>> \o seps[1] \o verb_string(Tail(verbs), Tail(seps))

\* The verb strings passed as methods.
VerbStrings ==
    UNION {{verb_string(verbs, seps) :
               verbs \in [1..n -> VerbTokens],
               seps \in [1..(n - 1) -> Separators]} : n \in 1..MaxVerbs}

\* The first position from i on that holds no blank.
RECURSIVE skip_blanks(_, _)
skip_blanks(s, i) ==
    IF i <= Len(s) /\ s[i] = " " THEN skip_blanks(s, i + 1) ELSE i

\* re.split on a pattern that is a comma, followed or not (blanks) by any
\* run of blanks: the pieces between the matches, as strings.
RECURSIVE split_from(_, _, _, _, _)
split_from(s, i, piece, acc, blanks) ==
    IF i > Len(s) THEN Append(acc, piece)
    ELSE IF s[i] = ","
    THEN split_from(s, IF blanks THEN skip_blanks(s, i + 1) ELSE i + 1, "",
                    Append(acc, piece), blanks)
    ELSE split_from(s, i + 1, piece \o s[i], acc, blanks)

\* The split on the comma alone.
re_split_comma_only(s) == split_from(s, 1, "", <<>>, FALSE)

\* re.split(COMMA, methods), COMMA being a comma and any blanks after it.
re_split(s) == split_from(s, 1, "", <<>>, TRUE)

\* add_url_handle with the verbs in one string: the string is split into
\* the list the loop goes through.
add_url_handle_str(route, handler, methods) ==
    LET out == IF serving
               THEN [rules |-> route_rules,
                     raised |-> "AssertionError: server is running"]
               ELSE register_verbs(route_rules, route, handler,
                                   re_split(methods))
    IN /\ route_rules' = out.rules
       /\ last' = [op |-> "add_url_handle_str", raised |-> out.raised,
                   added |-> Cardinality(DOMAIN out.rules)
                                - Cardinality(DOMAIN route_rules)]
       /\ UNCHANGED <<serving, started, tpc, inflight, stopCalled,
                      startedEmpty, noRoutesReports>>

\* add_url_handle without verbs: methods defaults to the string "GET".
add_url_handle_default(route, handler) ==
    add_url_handle_str(route, handler, <<"GET">>)

\* The caller registers with verb strings, before and after starting the
\* server.
RegisterNext ==
    \/ \E route \in Routes, handler \in Handlers, methods \in VerbStrings :
         add_url_handle_str(route, handler, methods)
    \/ \E route \in Routes, handler \in Handlers :
         add_url_handle_default(route, handler)
    \/ start
    \/ run_check_routes
    \/ run_set_serving

RegisterSpec == Init /\ [][RegisterNext]_vars

\* ------------------------------------------------------------------ claims

AlreadyRunning == "AssertionError: server is running"
DuplicateRoute == "AssertionError: already registered"
Unimplemented == "UnimplementedHTTPMethodError"

\* The route keys of a call's verb list.
KeysOf(route, methods) ==
    {format_route_key(route, methods[i]) : i \in 1..Len(methods)}

\* C1: every add_url_handle call made after start() has returned raises the
\* 'server is running' error and leaves the route table as it was.
C1_LateRegistrationRejected ==
    [][\A route \in Routes, handler \in Handlers, methods \in MethodLists :
         (started /\ add_url_handle(route, handler, methods))
            => /\ last'.raised = AlreadyRunning
               /\ route_rules' = route_rules]_vars

\* C2: a call on a non-serving server whose verb list names a key that is
\* already registered fails (with the duplicate-route error when every verb
\* of the list is implemented) and leaves the route table as it was.
C2_DuplicateLeavesTable ==
    [][\A route \in Routes, handler \in Handlers, methods \in MethodLists :
         (/\ ~serving
          /\ add_url_handle(route, handler, methods)
          /\ KeysOf(route, methods) \cap DOMAIN route_rules # {})
            => /\ last'.raised # "none"
               /\ (\A i \in 1..Len(methods) : upper(methods[i]) \in HTTP_METHODS)
                     => last'.raised = DuplicateRoute
               /\ route_rules' = route_rules]_vars

\* C3: a call on a non-serving server whose verb list holds a verb outside
\* GET and POST fails (with UnimplementedHTTPMethodError when no key of the
\* list is registered yet) and registers no verb of the list, wherever the
\* invalid verb stands.
C3_InvalidVerbLeavesTable ==
    [][\A route \in Routes, handler \in Handlers, methods \in MethodLists :
         (/\ ~serving
          /\ add_url_handle(route, handler, methods)
          /\ \E i \in 1..Len(methods) : upper(methods[i]) \notin HTTP_METHODS)
            => /\ last'.raised # "none"
               /\ (/\ KeysOf(route, methods) \cap DOMAIN route_rules = {}
                   /\ \A i, j \in 1..Len(methods) :
                        i # j => methods[i] # methods[j])
                     => last'.raised = Unimplemented
               /\ route_rules' = route_rules]_vars

\* The operations that run do_GET or do_POST, and those that end a request.
IsDispatch == last.op \in {"do_GET", "do_POST"}
IsAnswer == /\ last.op \in {"do_GET", "do_POST", "handler_return"}
            /\ last.res.stage = "done"

\* C4: every key of the route table was put there by a registration call
\* that succeeded and keeps the handler that call gave (no entry is ever
\* overwritten or removed); a dispatch resolves a registered key to its
\* handler and an unregistered key to the 404.
C4_TableHoldsSuccessfulRegistrations ==
    [][/\ \A k \in DOMAIN route_rules :
            k \in DOMAIN route_rules' /\ route_rules'[k] = route_rules[k]
       /\ \A k \in DOMAIN route_rules' \ DOMAIN route_rules :
            last'.op = "add_url_handle" /\ last'.raised = "none"
       /\ last'.op \in {"do_GET", "do_POST"} =>
            IF last'.key \in DOMAIN route_rules
            THEN /\ last'.res # Answered("none", <<"404">>)
                 /\ last'.res.stage = "handler"
                      => last'.handler = route_rules[last'.key]
            ELSE last'.res = Answered("none", <<"404">>)]_vars

\* C5: once stop() has been called after start(), the background thread
\* eventually leaves run().
C5_StopEndsThread ==
    (stopCalled = "after_start") ~> (tpc \in {"exited", "crashed"})

\* C6: a server started on an empty route table reports the no-routes
\* condition through the callback exactly once, goes on to the serving state
\* and answers every request with the 404.
C6_EmptyStartReportsOnceAndServes404 ==
    startedEmpty =>
        /\ noRoutesReports <= 1
        /\ tpc \notin {"unstarted", "check_routes"} => noRoutesReports = 1
        /\ last.op = "run_no_routes" => tpc = "set_serving"
        /\ IsDispatch => last.res = Answered("none", <<"404">>)

\* C7: a request to a registered key whose argument building or handler call
\* fails makes exactly one callback call, made before the response, and is
\* answered with the 500 and no 200.
C7_FailureReportedThen500 ==
    (IsAnswer /\ last.res.err \in {"args", "handler"})
        => last.res.log \in {<<"on_error", "500">>,
                             <<"handler", "on_error", "500">>}

\* C8: an error raised while handle_request() processes a request does not
\* end the loop of run(): the loop is there for the next request.
C8_LoopSurvivesRequestError ==
    last.op = "listener_error" => tpc = "loop"

\* C9: an exception raised by the callback does not reach run() (the thread
\* goes on after the no-routes report and after a listener error), and a
\* failed request gets its 500 whatever the callback does.
C9_CallbackExceptionContained ==
    /\ last.op = "run_no_routes" => tpc = "set_serving"
    /\ last.op = "listener_error" => tpc = "loop"
    /\ (IsAnswer /\ last.res.err # "none")
          => last.res.log[Len(last.res.log)] = "500"

\* C10: a GET or POST whose route key is not in the table is answered with
\* the 404 and nothing else: no handler call, no callback call.
C10_UnknownRoute404 ==
    (IsDispatch /\ last.key \notin DOMAIN route_rules)
        => last.res = Answered("none", <<"404">>)

\* A POST to a path that is registered for GET only has been answered 404.
C10_Witness ==
    /\ last.op = "do_POST"
    /\ last.key = format_route_key(<<"a">>, "POST")
    /\ DOMAIN route_rules = {format_route_key(<<"a">>, "GET")}
    /\ last.res = Answered("none", <<"404">>)

\* C11: a request whose handler has returned normally is answered with the
\* 200 alone: one handler call, no callback call, no 500.
C11_HandlerReturnGives200 ==
    (last.op = "handler_return" /\ last.res.err # "handler")
        => last.res = Answered("none", <<"handler", "200">>)

\* C12: no step adds an entry to the route table between the call of start()
\* and the end of the background thread.
C12_TableFrozenWhileThreadLives ==
    [][(started /\ tpc \notin {"exited", "crashed"})
          => route_rules' = route_rules]_vars

C14_StoppedIsTerminal ==
    [][stopCalled # "never" => ~serving']_vars

NotFound == Answered("none", <<"404">>)

\* C19: for GET and for POST, a request is looked up under its path without
\* the query: it gets the 404 exactly when the stripped path is not
\* registered for its verb.
C19_QueryStrippedBeforeLookup ==
    [][\A path \in RequestPaths :
         /\ do_GET(path) =>
               ((last'.res = NotFound) <=>
                  format_route_key(split_query(path), "GET")
                      \notin DOMAIN route_rules)
         /\ do_POST(path) =>
               ((last'.res = NotFound) <=>
                  format_route_key(split_query(path), "POST")
                      \notin DOMAIN route_rules)]_vars

\* The steps that end a request's stay in dispatch.
RequestOps == {"do_GET", "do_POST", "handler_return"}

IsStringList(value) ==
    /\ value.t = "list"
    /\ Len(value.v) >= 1
    /\ \A i \in 1..Len(value.v) : value.v[i].t = "str"

\* C17: try_parse gives 'true' and 'True' as true, 'false' and 'False' as
\* false, 'null' and 'None' as null, a number literal as the number, a quoted
\* word as the word, an object or array literal as the mapping or sequence
\* it writes and any other string as it came; of a mapping or a sequence it
\* gives one of the same keys or length holding the try_parse of every value
\* or element.
C17_TryParseTypedValue ==
    last.op = "try_parse" =>
        LET value == last.value
            result == last.result
            text == value.v
        IN /\ value.t = "str" =>
                CASE text \in {<<"true">>, <<"True">>} -> result = PyBool(TRUE)
                  [] text \in {<<"false">>, <<"False">>} -> result = PyBool(FALSE)
                  [] text \in {<<"null">>, <<"None">>} -> result = PyNone
                  [] text = <<"3">> -> result = PyInt(3)
                  [] text = <<"-0.5">> -> result = PyFloat("-0.5")
                  [] text = <<"\"bar\"">> -> result = PyStr(<<"bar">>)
                  [] text = <<"[", "]">> -> result = PyList(<<>>)
                  [] text = <<"{", "}">> -> result = PyDict(<<>>)
                  [] text = <<"[", "3", "]">> -> result = PyList(<<PyInt(3)>>)
                  [] Len(text) > 3 /\ text[1] = "{" ->
                       result = PyDict([bar |-> PyInt(7), baz |-> PyBool(TRUE)])
                  [] Len(text) > 3 /\ text[1] = "[" ->
                       result = PyList(<<PyStr(<<"bar">>), PyInt(3),
                                         PyBool(TRUE), PyNone>>)
                  [] OTHER -> json_loads(text).ok \/ result = value
           /\ value.t = "dict" =>
                /\ result.t = "dict"
                /\ DOMAIN result.v = DOMAIN value.v
                /\ \A k \in DOMAIN value.v : result.v[k] = try_parse(value.v[k])
           /\ value.t = "list" =>
                /\ result.t = "list"
                /\ Len(result.v) = Len(value.v)
                /\ \A i \in 1..Len(value.v) : result.v[i] = try_parse(value.v[i])

\* C18: of a mapping from names to non-empty lists of strings, unpack gives
\* a mapping of the same names in which a one-element list has become the
\* try_parse of its element and a longer list the list of the try_parse of
\* its elements, in order; of a string, unpack gives its try_parse.
C18_UnpackCollapsesSingletons ==
    last.op = "unpack" =>
        LET value == last.value
            result == last.result
        IN /\ value.t = "str" => result = try_parse(value)
           /\ (/\ value.t = "dict"
               /\ \A k \in DOMAIN value.v : IsStringList(value.v[k])) =>
                /\ result.t = "dict"
                /\ DOMAIN result.v = DOMAIN value.v
                /\ \A k \in DOMAIN value.v :
                     LET group == value.v[k].v
                     IN IF Len(group) = 1
                        THEN result.v[k] = try_parse(group[1])
                        ELSE result.v[k] =
                               PyList([i \in 1..Len(group) |-> try_parse(group[i])])

\* unpack has been applied to foo=bar&foo=True&qux=3 as parse_qs gives it.
C18_Witness ==
    /\ last.op = "unpack"
    /\ last.value = PyDict([foo |-> PyList(<<PyStr(<<"bar">>), PyStr(<<"True">>)>>),
                            qux |-> PyList(<<PyStr(<<"3">>)>>)])
    /\ last.result = PyDict([foo |-> PyList(<<PyStr(<<"bar">>), PyBool(TRUE)>>),
                             qux |-> PyInt(3)])

\* The media type a Content-Type header names ("none" without the header).
MediaType(content_type) ==
    IF content_type.t = "str" THEN content_type.v[1] ELSE "none"

\* C15: a POST to a registered route whose Content-Type is neither JSON nor
\* form data (or is absent) calls the handler with the raw body as its one
\* positional argument when there is a body and with no argument when there
\* is none; the callback is not called.
C15_RawBodyOrNoArguments ==
    (/\ last.op = "do_POST_body"
     /\ MediaType(last.content_type)
            \notin {"application/json", "application/x-www-form-urlencoded"})
        => last.res = HandlerCall(IF last.body = <<>> THEN PyList(<<>>)
                                  ELSE PyList(<<PyStr(last.body)>>))

\* C16: a JSON POST to a registered route calls the handler with no keyword
\* argument when the body is absent or empty, and with the members of the
\* body as keyword arguments when the body is a JSON object.
C16_JsonBodyGivesKeywords ==
    (/\ last.op = "do_POST_body"
     /\ MediaType(last.content_type) = "application/json"
     /\ last.content_length \in {PyInt(0), PyStr(<<"length">>)})
        => /\ last.body = <<>> => last.res = HandlerCall(PyDict(<<>>))
           /\ (/\ last.content_length = PyStr(<<"length">>)
               /\ json_loads(last.body).ok
               /\ json_loads(last.body).val.t = "dict")
                 => last.res = HandlerCall(json_loads(last.body).val)

\* How often token stands in a request's log.
Count(log, token) == Cardinality({i \in 1..Len(log) : log[i] = token})

\* C22: a request that do_GET or do_POST has dealt with got one status line
\* out of 404, 200 and 500, its handler was called at most once, and the
\* callback was called exactly when the status is 500.
C22_OneStatusPerRequest ==
    IsAnswer =>
        LET log == last.res.log
        IN /\ Count(log, "404") + Count(log, "200") + Count(log, "500") = 1
           /\ Count(log, "handler") <= 1
           /\ Count(log, "on_error") > 0 <=> Count(log, "500") = 1

\* The verbs of a verb string, in order, and their upper-cased list.
VerbsOf(s) == SelectSeq(s, LAMBDA x : x \in VerbTokens)
UpperVerbs(s) == [i \in 1..Len(VerbsOf(s)) |-> upper(VerbsOf(s)[i])]

\* A verb string that is verbs separated by a comma and any blanks after it.
CommaSeparated(s) ==
    /\ s[1] \in VerbTokens
    /\ s[Len(s)] \in VerbTokens
    /\ \A i \in 2..Len(s) :
         /\ s[i] \in VerbTokens => s[i - 1] \in {",", " "}
         /\ s[i] = "," => s[i - 1] \in VerbTokens
         /\ s[i] = " " => s[i - 1] \in {",", " "}

CommaSeparatedStrings == {s \in VerbStrings : CommaSeparated(s)}

\* C21: registering with a comma-separated verb string, blanks after the
\* commas or not, in either letter case, leaves the route table as
\* registering with the list of the upper-cased verbs does; registering
\* without verbs adds the GET key alone.
C21_VerbStringNormalized ==
    \A route \in Routes, handler \in Handlers :
       /\ \A s \in CommaSeparatedStrings :
            ENABLED (/\ add_url_handle_str(route, handler, s)
                     /\ route_rules' =
                          IF serving THEN route_rules
                          ELSE register_verbs(route_rules, route, handler,
                                              UpperVerbs(s)).rules)
       /\ ENABLED (/\ add_url_handle_default(route, handler)
                   /\ route_rules' =
                        IF serving
                           \/ route \o <<",", " ", "GET">> \in DOMAIN route_rules
                        THEN route_rules
                        ELSE route_rules
                                @@ (route \o <<",", " ", "GET">> :> handler))

\* One call with a verb string has registered the GET and the POST key.
C21_Witness ==
    /\ last.op = "add_url_handle_str"
    /\ last.raised = "none"
    /\ last.added = 2
    /\ route_rules = (<<"a", ",", " ", "GET">> :> "h1")
                        @@ (<<"a", ",", " ", "POST">> :> "h1")

====
